---- MODULE Spec2Model ----
(***************************************************************************)
(* A model of the seekdb ecology plugins:                                  *)
(*   - the documentation catalog generator (generate_catalog.py),          *)
(*   - the CSV/Excel importer (import_to_seekdb.py, data_utils.py),        *)
(*   - the two query scripts (agent-skills and claudecode-plugin           *)
(*     query_from_seekdb.py),                                              *)
(*   - the interactive installer (seekdb_plugin_installer/main.py),        *)
(*   - the packaging script (upload_to_pypi.py).                           *)
(* Each component has its own specification (SpecCatalog and               *)
(* SpecCatalogPaths, SpecImport, SpecQuery, SpecInstall, SpecPack); the    *)
(* variables of the other components keep their initial values under it.   *)
(***************************************************************************)
EXTENDS Integers, Sequences, FiniteSets, TLC

(***************************************************************************)
(* Bounds of the model.                                                    *)
(***************************************************************************)
\* number of markdown files under the docs directory
NumFiles == 2
\* distinct contents a markdown file can have
MaxContent == 2
\* largest --concurrency value tried (0 is tried too)
MaxConcurrency == 1
\* installer runs in one behaviour
MaxInstalls == 2
\* runs of the packaging script in one behaviour
MaxPacks == 2
\* changes to the project's skills/ directory in one behaviour
MaxSkillEdits == 2
\* catalog generator invocations in one behaviour
MaxRuns == 2
\* catalog generator invocations in one behaviour of runs that differ in --output
MaxPathRuns == 3
\* edits of documentation files in one behaviour
MaxEdits == 1
\* rows of an imported file
MaxRows == 3
\* largest --batch-size tried (0 and -1 are tried too)
MaxBatch == 2
\* records a collection holds before an import
MaxOld == 1
\* records of the queried collection
NumRecords == 2
\* largest --n-results tried
MaxResults == 2

(***************************************************************************)
(* State of the catalog generator: generate_catalog.py                     *)
(***************************************************************************)
VARIABLES
    docs,            \* docs directory: file -> content
    branchMapFile,   \* _branch_map.tsv: path -> branch (partial)
    catalogFile,     \* the JSONL catalogs: output path -> a sequence of entries
    hashCacheFile,   \* _catalog_hash_cache.json: path -> md5 (partial)
    gpc,             \* position of main(): "idle", "gather" or "done"
    gargs,           \* parsed command line of the current run
    branch_map,      \* main's local: the branch map loaded at start
    existing_catalog,\* main's local: the catalog loaded at start
    hash_cache,      \* main's local: the hash cache, updated in place
    loaded_cache,    \* the hash cache as loaded at the start of the run
    current_hash,    \* file -> md5 computed by this run
    entries,         \* process_files' local list of entries
    tasks,           \* process_files' local list of scheduled tasks
    taskpc,          \* per task: "waiting" (on the semaphore), "inflight", "done"
    taskres,         \* per task: the description generate_description returned
    semaphore,       \* LLMClient.semaphore._value
    sent,            \* file -> LLM API requests issued for it in this run
    catalogBefore,   \* the catalog files as they were when the run started
    runs,            \* runs started so far
    edits            \* edits made so far

catalogVars == <<docs, branchMapFile, catalogFile, hashCacheFile, gpc, gargs,
                 branch_map, existing_catalog, hash_cache, loaded_cache, current_hash,
                 entries, tasks, taskpc, taskres, semaphore, sent,
                 catalogBefore, runs, edits>>

(***************************************************************************)
(* State of the importer: import_to_seekdb.py                              *)
(***************************************************************************)
VARIABLES
    ipc,             \* position of import_to_seekdb: "idle", "loop", "done", "error"
    df,              \* the cleaned DataFrame: a sequence of rows
    vectorize_column,\* the column to vectorize, or None
    batch_size,      \* --batch-size
    existed,         \* whether the collection existed before the import
    collection,      \* the records of the collection, in insertion order
    ids,             \* the uuid4 generated for each row
    documents,       \* the documents prepared for the rows, or None
    metadatas,       \* the metadata dicts prepared for the rows
    loop_i,          \* the loop variable i of the batch loop
    addCalls,        \* the collection.add calls made, each with its arguments
    total_imported,  \* the running total the loop prints
    count            \* the count import_to_seekdb returns

importVars == <<ipc, df, vectorize_column, batch_size, existed, collection,
                ids, documents, metadatas, loop_i, addCalls, total_imported,
                count>>

(***************************************************************************)
(* State of the query scripts: query_from_seekdb.py                        *)
(***************************************************************************)
VARIABLES
    qpc,             \* position of main(): "idle", "parsed", "fetched", "exit"
    script,          \* which script runs: "agent" (agent-skills) or "claude"
    argv,            \* the command line given
    query_text,      \* main's local query_text (claudecode-plugin script)
    dbCalls,         \* the calls made on the pyseekdb client and collection
    dbResponse,      \* what the last collection.get/query/hybrid_search returned
    results,         \* the dict the search function returned to main
    result_type,     \* "query" or "get", as main passes it to output_results
    frame,           \* what results_to_dataframe produced
    printed,         \* what print_results printed
    fsDirs,          \* directories export_to_file created
    outFile,         \* the rows of the file export_to_file wrote
    abs_path,        \* the path export_to_file returned
    exit_status,     \* exit status of the script
    raised           \* the exception that ended it, or None

queryVars == <<qpc, script, argv, query_text, dbCalls, dbResponse, results,
               result_type, frame, printed, fsDirs, outFile, abs_path,
               exit_status, raised>>

(***************************************************************************)
(* State of the installer: seekdb_plugin_installer/main.py                 *)
(***************************************************************************)
VARIABLES
    inst_pc,         \* position of main(): "idle", the prompt it waits at, "exit"
    selected_tool,   \* main's local selected_tool
    selected_skills, \* main's local selected_skills
    asked,           \* the prompts answered in this run, each with the kind of answer
    package,         \* skills/ of the installed package: skill -> its directory
    targetTree,      \* skills directory of each tool: skill -> its directory
    treeBefore,      \* targetTree as it was when the run started
    copied,          \* the skills copy_skill copied in this run
    copy_log,        \* what install_skills did with each selected skill, in order
    inst_exit,       \* exit status of the installer
    installs         \* installer runs started so far

installVars == <<inst_pc, selected_tool, selected_skills, asked, package,
                 targetTree, treeBefore, copied, copy_log, inst_exit, installs>>

(***************************************************************************)
(* State of the packaging script: upload_to_pypi.py                        *)
(***************************************************************************)
VARIABLES
    pack_pc,         \* position of main(): "idle", "build" (subprocess running), "exit"
    rootSkills,      \* skills/ of the project root: its entries, or missing
    packageSkills,   \* src/seekdb_plugin_installer/skills: its entries, or missing
    dist,            \* the skills inside the wheel of the last successful build, or None
    steps,           \* the steps this run has taken, in order
    pack_exit,       \* exit status of the script
    packs,           \* runs of the script started so far
    skillEdits       \* changes made to skills/ so far

packVars == <<pack_pc, rootSkills, packageSkills, dist, steps, pack_exit,
              packs, skillEdits>>

vars == <<catalogVars, importVars, queryVars, installVars, packVars>>

(***************************************************************************)
(* Values shared by the components.                                        *)
(***************************************************************************)
\* Python's None, where the other values are strings
None == "None"
\* an optional value whose other values are lists: None, or the list
NoneV == [isNone |-> TRUE, v |-> <<>>]
Some(x) == [isNone |-> FALSE, v |-> x]
\* an empty dict
EmptyMap == [x \in {} |-> 0]
Min(a, b) == IF a <= b THEN a ELSE b
\* a directory: whether it exists, and its entries
Dir(names) == [exists |-> TRUE, entries |-> names]
MissingDir == [exists |-> FALSE, entries |-> {}]

----------------------------------------------------------------------------
(***************************************************************************)
(* Catalog generator: generate_catalog.py                                  *)
(***************************************************************************)

Files == 1..NumFiles
\* the default of --output, and another catalog path
CATALOG_FILE == "references/seekdb-docs-catalog.jsonl"
Outputs == {CATALOG_FILE, "out/catalog.jsonl"}
Contents == 1..MaxContent
Branches == {"v1", "v2"}
\* an entry without a "branch" key
NoBranch == "none"
\* hashlib.md5 of a file's bytes: a function of the content alone
file_md5(content) == <<"md5", content>>

\* what the LLM answers for a document: a text about that content, different
\* on every call (the run that asked is part of the text)
LLMAnswer(content, run) == <<"llm", content, run>>
\* generate_description's result when the API call raised
EmptyDescription == <<"", 0, 0>>
DryRunDescription == <<"(dry run - not generated)", 0, 0>>

MakeEntry(path, description, map) ==
    [path |-> path, description |-> description,
     branch |-> IF path \in DOMAIN map THEN map[path] ELSE NoBranch]

\* load_existing_catalog: a dict keyed by path, a later line overriding an earlier
load_existing_catalog(lines) ==
    LET paths == {lines[i].path : i \in DOMAIN lines}
        last(p) == CHOOSE i \in DOMAIN lines :
                      /\ lines[i].path = p
                      /\ \A j \in DOMAIN lines : lines[j].path = p => j <= i
    IN [p \in paths |-> lines[last(p)]]

\* the incremental skip test of process_files
SkipAlways(incremental, rel_path, cache, existing, h) ==
    incremental /\ rel_path \in DOMAIN cache /\ rel_path \in DOMAIN existing

SkipNever(incremental, rel_path, cache, existing, h) == FALSE

Unchanged(incremental, rel_path, cache, existing, h) ==
    /\ incremental
    /\ rel_path \in DOMAIN cache
    /\ rel_path \in DOMAIN existing
    /\ cache[rel_path] = h

\* the entry reused for an unchanged file: a copy, its branch updated if mapped
ReuseEntry(old, map) ==
    IF old.path \in DOMAIN map
    THEN [old EXCEPT !.branch = map[old.path]]
    ELSE old

\* the for loop of process_files over the sorted file list: the entries and
\* the tasks after the files 1..n
RECURSIVE ScanFiles(_, _, _, _, _, _)
ScanFiles(n, incremental, dry_run, cache, existing, map) ==
    IF n = 0 THEN [entries |-> <<>>, tasks |-> <<>>]
    ELSE LET prev == ScanFiles(n - 1, incremental, dry_run, cache, existing, map)
             h == file_md5(docs[n])
         IN IF Unchanged(incremental, n, cache, existing, h)
            THEN [prev EXCEPT !.entries =
                      Append(@, ReuseEntry(existing[n], map))]
            ELSE IF dry_run
            THEN [prev EXCEPT !.entries =
                      Append(@, MakeEntry(n, DryRunDescription, map))]
            ELSE [prev EXCEPT !.tasks =
                      Append(@, [rel_path |-> n, current_hash |-> h,
                                 content |-> docs[n]])]

\* entries.sort(key=path): a stable insertion sort
RECURSIVE InsertByPath(_, _)
InsertByPath(sorted, e) ==
    IF sorted = <<>> THEN <<e>>
    ELSE IF sorted[Len(sorted)].path <= e.path THEN Append(sorted, e)
    ELSE Append(InsertByPath(SubSeq(sorted, 1, Len(sorted) - 1), e),
                sorted[Len(sorted)])

RECURSIVE SortByPath(_)
SortByPath(s) ==
    IF s = <<>> THEN <<>>
    ELSE InsertByPath(SortByPath(SubSeq(s, 1, Len(s) - 1)), s[Len(s)])

\* main writes the catalog and the hash cache only without --dry-run
WritesAlways(dry_run) == TRUE

WritesOutput(dry_run) == ~dry_run

\* the entries of the tasks whose API call returned a description
TaskEntriesAnswered(ts, res, map) ==
    LET upTo[n \in 0..Len(ts)] ==
            IF n = 0 THEN <<>>
            ELSE IF res[n] = EmptyDescription THEN upTo[n - 1]
            ELSE Append(upTo[n - 1], MakeEntry(ts[n].rel_path, res[n], map))
    IN upTo[Len(ts)]

\* the entries of the tasks, in task order (asyncio.gather keeps the order)
TaskEntries(ts, res, map) ==
    [i \in DOMAIN ts |-> MakeEntry(ts[i].rel_path, res[i], map)]

\* new_hash_cache of process_files: the cache updated with every task's hash
UpdatedCache(cache, ts) ==
    LET done == {ts[i].rel_path : i \in DOMAIN ts}
        hashOf(p) == (CHOOSE i \in DOMAIN ts : ts[i].rel_path = p)
    IN [p \in DOMAIN cache \cup done |->
           IF p \in done THEN ts[hashOf(p)].current_hash ELSE cache[p]]

CatalogInit ==
    /\ docs = [f \in Files |-> 1]
    /\ branchMapFile = [f \in {1} |-> "v1"]
    /\ catalogFile = [o \in Outputs |-> <<>>]
    /\ hashCacheFile = EmptyMap
    /\ gpc = "idle"
    /\ gargs = [output |-> CATALOG_FILE, incremental |-> FALSE,
                dry_run |-> FALSE, concurrency |-> 1]
    /\ branch_map = EmptyMap
    /\ existing_catalog = EmptyMap
    /\ hash_cache = EmptyMap
    /\ loaded_cache = EmptyMap
    /\ current_hash = [f \in Files |-> file_md5(docs[f])]
    /\ entries = <<>>
    /\ tasks = <<>>
    /\ taskpc = <<>>
    /\ taskres = <<>>
    /\ semaphore = 0
    /\ sent = [f \in Files |-> 0]
    /\ catalogBefore = catalogFile
    /\ runs = 0
    /\ edits = 0

\* the end of main: write_catalog to --output and save_hash_cache to
\* HASH_CACHE_FILE, unless --dry-run
Finish(output, dry_run, final_entries, final_cache) ==
    /\ gpc' = "done"
    /\ entries' = final_entries
    /\ hash_cache' = final_cache
    /\ IF WritesOutput(dry_run)
       THEN /\ catalogFile' = [catalogFile EXCEPT ![output] = final_entries]
            /\ hashCacheFile' = final_cache
       ELSE UNCHANGED <<catalogFile, hashCacheFile>>

\* main up to the first suspension: parse the arguments, load the branch map,
\* the catalog and the hash cache, create the LLM client and run the loop of
\* process_files; a dry run, and a run with nothing to generate, end here
StartRunAt(output, incremental, dry_run, concurrency) ==
    /\ gpc \in {"idle", "done"}
    /\ runs' = runs + 1
    /\ gargs' = [output |-> output, incremental |-> incremental,
                 dry_run |-> dry_run, concurrency |-> concurrency]
    /\ LET existing == load_existing_catalog(catalogFile[output])
           scan == ScanFiles(NumFiles, incremental, dry_run, hashCacheFile,
                             existing, branchMapFile)
       IN /\ branch_map' = branchMapFile
          /\ existing_catalog' = existing
          /\ loaded_cache' = hashCacheFile
          /\ current_hash' = [f \in Files |-> file_md5(docs[f])]
          /\ catalogBefore' = catalogFile
          /\ sent' = [f \in Files |-> 0]
          /\ semaphore' = concurrency
          /\ tasks' = scan.tasks
          /\ taskpc' = [i \in DOMAIN scan.tasks |-> "waiting"]
          /\ taskres' = [i \in DOMAIN scan.tasks |-> EmptyDescription]
          /\ IF dry_run
             THEN Finish(output, dry_run, scan.entries, hashCacheFile)
             ELSE IF scan.tasks = <<>>
             THEN Finish(output, dry_run, SortByPath(scan.entries), hashCacheFile)
             ELSE /\ gpc' = "gather"
                  /\ entries' = scan.entries
                  /\ hash_cache' = hashCacheFile
                  /\ UNCHANGED <<catalogFile, hashCacheFile>>
    /\ UNCHANGED <<docs, branchMapFile, edits>>
    /\ UNCHANGED <<importVars, queryVars, installVars, packVars>>

\* a run with the default --output
StartRun(incremental, dry_run, concurrency) ==
    /\ runs < MaxRuns
    /\ StartRunAt(CATALOG_FILE, incremental, dry_run, concurrency)

\* a run with any --output and --concurrency 1
StartRunTo(output, incremental, dry_run) ==
    /\ runs < MaxPathRuns
    /\ StartRunAt(output, incremental, dry_run, 1)

\* `async with self.semaphore`: a task enters when the semaphore is not locked
AcquireAlways(value) == TRUE

CanAcquire(value) == value > 0

\* generate_description enters the semaphore and issues the API request
Acquire(i) ==
    /\ gpc = "gather"
    /\ i \in DOMAIN tasks
    /\ taskpc[i] = "waiting"
    /\ CanAcquire(semaphore)
    /\ semaphore' = semaphore - 1
    /\ taskpc' = [taskpc EXCEPT ![i] = "inflight"]
    /\ sent' = [sent EXCEPT ![tasks[i].rel_path] = @ + 1]
    /\ UNCHANGED <<docs, branchMapFile, catalogFile, hashCacheFile, gpc, gargs,
                   branch_map, existing_catalog, hash_cache, loaded_cache, current_hash,
                   entries, tasks, taskres, catalogBefore, runs, edits>>
    /\ UNCHANGED <<importVars, queryVars, installVars, packVars>>

\* the API request of task i ends: with an answer, or with an exception that
\* generate_description turns into ""; the semaphore is released either way
Complete(i, ok) ==
    /\ gpc = "gather"
    /\ i \in DOMAIN tasks
    /\ taskpc[i] = "inflight"
    /\ semaphore' = semaphore + 1
    /\ taskpc' = [taskpc EXCEPT ![i] = "done"]
    /\ taskres' = [taskres EXCEPT ![i] =
                      IF ok THEN LLMAnswer(tasks[i].content, runs)
                      ELSE EmptyDescription]
    /\ UNCHANGED <<docs, branchMapFile, catalogFile, hashCacheFile, gpc, gargs,
                   branch_map, existing_catalog, hash_cache, loaded_cache, current_hash,
                   entries, tasks, sent, catalogBefore, runs, edits>>
    /\ UNCHANGED <<importVars, queryVars, installVars, packVars>>

\* asyncio.gather returns: the entries and hashes of the tasks are added, the
\* entries sorted, the catalog and the hash cache written
GatherDone ==
    /\ gpc = "gather"
    /\ \A i \in DOMAIN tasks : taskpc[i] = "done"
    /\ Finish(gargs.output, gargs.dry_run,
              SortByPath(entries \o TaskEntries(tasks, taskres, branch_map)),
              UpdatedCache(hash_cache, tasks))
    /\ UNCHANGED <<docs, branchMapFile, gargs, branch_map, existing_catalog, loaded_cache,
                   current_hash, tasks, taskpc, taskres, semaphore, sent,
                   catalogBefore, runs, edits>>
    /\ UNCHANGED <<importVars, queryVars, installVars, packVars>>

\* between two runs a documentation file is edited
EditDoc(f, c) ==
    /\ gpc \in {"idle", "done"}
    /\ edits < MaxEdits
    /\ docs[f] # c
    /\ docs' = [docs EXCEPT ![f] = c]
    /\ edits' = edits + 1
    /\ UNCHANGED <<branchMapFile, catalogFile, hashCacheFile, gpc, gargs,
                   branch_map, existing_catalog, hash_cache, loaded_cache, current_hash,
                   entries, tasks, taskpc, taskres, semaphore, sent,
                   catalogBefore, runs>>
    /\ UNCHANGED <<importVars, queryVars, installVars, packVars>>

\* between two runs _branch_map.tsv is rewritten
EditBranchMap(m) ==
    /\ gpc \in {"idle", "done"}
    /\ edits < MaxEdits
    /\ branchMapFile # m
    /\ branchMapFile' = m
    /\ edits' = edits + 1
    /\ UNCHANGED <<docs, catalogFile, hashCacheFile, gpc, gargs,
                   branch_map, existing_catalog, hash_cache, loaded_cache, current_hash,
                   entries, tasks, taskpc, taskres, semaphore, sent,
                   catalogBefore, runs>>
    /\ UNCHANGED <<importVars, queryVars, installVars, packVars>>

\* the branch maps _branch_map.tsv can hold: each path with a branch or without
BranchMaps == UNION {[ps -> Branches] : ps \in SUBSET Files}

CatalogNext ==
    \/ \E inc \in BOOLEAN, dry \in BOOLEAN, c \in 0..MaxConcurrency :
          StartRun(inc, dry, c)
    \/ \E i \in 1..NumFiles : Acquire(i)
    \/ \E i \in 1..NumFiles, ok \in BOOLEAN : Complete(i, ok)
    \/ GatherDone
    \/ \E f \in Files, c \in Contents : EditDoc(f, c)

\* runs that differ in --output, with edits of the documentation and of the
\* branch map between them
CatalogPathsNext ==
    \/ \E o \in Outputs, inc \in BOOLEAN, dry \in BOOLEAN : StartRunTo(o, inc, dry)
    \/ \E i \in 1..NumFiles : Acquire(i)
    \/ \E i \in 1..NumFiles, ok \in BOOLEAN : Complete(i, ok)
    \/ GatherDone
    \/ \E f \in Files, c \in Contents : EditDoc(f, c)
    \/ \E m \in BranchMaps : EditBranchMap(m)

----------------------------------------------------------------------------
(***************************************************************************)
(* Importer: import_to_seekdb.py (and the helpers of data_utils.py)        *)
(***************************************************************************)

Columns == {"Name", "Details"}
\* a column name the file does not have
MissingColumn == "Missing"

\* row i of the input file (1-based), after clean_dataframe
Row(i) == [c \in Columns |-> <<c, i>>]
\* the value astype(str) gives
Str(v) == <<"str", v>>
\* uuid.uuid4() for row i: unique, and unlike every id already stored
Uuid(i) == <<"uuid", i>>
\* a record stored before the import
OldRecord(k) == [id |-> <<"old", k>>, document |-> NoneV,
                 metadata |-> [c \in {} |-> 0]]

\* prepare_import_data / step 5 of import_to_seekdb: the document of a row
DocumentOf(row, column) == Str(row[column])
\* the metadata with the vectorized column left in
MetadataWholeRow(row, column) == row

\* ... and its metadata: the row without the vectorized column
MetadataOf(row, column) ==
    [c \in DOMAIN row \ {column} |-> row[c]]

\* items[i:i+batch_size] for 0 <= i and batch_size >= 1 (i is 0-based)
SliceShort(items, i, size) ==
    SubSeq(items, i + 1, Min(i + size, Len(items)) - 1)

Slice(items, i, size) == SubSeq(items, i + 1, Min(i + size, Len(items)))

\* range(0, n, step) still yields the value i
InRange(i, n, step) == IF step > 0 THEN i < n ELSE i > n

\* data_utils.batch_generator: the batches it yields, from offset i on
RECURSIVE BatchesFrom(_, _, _)
BatchesFrom(items, i, size) ==
    IF ~InRange(i, Len(items), size) THEN <<>>
    ELSE <<Slice(items, i, size)>> \o BatchesFrom(items, i + size, size)

batch_generator(items, size) == BatchesFrom(items, 0, size)

ImportInit ==
    /\ ipc = "idle"
    /\ df = <<>>
    /\ vectorize_column = None
    /\ batch_size = 1
    /\ existed = FALSE
    /\ collection = <<>>
    /\ ids = <<>>
    /\ documents = NoneV
    /\ metadatas = <<>>
    /\ loop_i = 0
    /\ addCalls = <<>>
    /\ total_imported = 0
    /\ count = 0

\* steps 1-5 of import_to_seekdb: read and clean the file, validate the
\* column, connect, get or create the collection, prepare ids, documents and
\* metadatas; range() raises ValueError for a batch size of 0
ImportStart(n, column, size, had, old) ==
    /\ ipc = "idle"
    /\ df' = [i \in 1..n |-> Row(i)]
    /\ vectorize_column' = column
    /\ batch_size' = size
    /\ IF column # None /\ column \notin Columns
       THEN /\ ipc' = "error"
            /\ UNCHANGED <<existed, collection, ids, documents, metadatas>>
       ELSE /\ existed' = had
            /\ collection' = IF had THEN [k \in 1..old |-> OldRecord(k)] ELSE <<>>
            /\ ids' = [i \in 1..n |-> Uuid(i)]
            /\ documents' = IF column # None
                            THEN Some([i \in 1..n |-> DocumentOf(Row(i), column)])
                            ELSE NoneV
            /\ metadatas' = IF column # None
                            THEN [i \in 1..n |-> MetadataOf(Row(i), column)]
                            ELSE [i \in 1..n |-> Row(i)]
            /\ ipc' = IF size = 0 THEN "error" ELSE "loop"
    /\ UNCHANGED <<loop_i, addCalls, total_imported, count>>
    /\ UNCHANGED <<catalogVars, queryVars, installVars, packVars>>

\* one iteration of the batch loop: a collection.add of the next slice
ImportBatch ==
    /\ ipc = "loop"
    /\ InRange(loop_i, Len(ids), batch_size)
    /\ LET batch_ids == Slice(ids, loop_i, batch_size)
           batch_meta == Slice(metadatas, loop_i, batch_size)
           batch_docs == IF vectorize_column # None
                         THEN Some(Slice(documents.v, loop_i, batch_size))
                         ELSE NoneV
           added == [k \in DOMAIN batch_ids |->
                       [id |-> batch_ids[k],
                        document |-> IF vectorize_column # None
                                     THEN Some(batch_docs.v[k]) ELSE NoneV,
                        metadata |-> batch_meta[k]]]
       IN /\ addCalls' = Append(addCalls, [ids |-> batch_ids,
                                           documents |-> batch_docs,
                                           metadatas |-> batch_meta])
          /\ collection' = collection \o added
          /\ total_imported' = total_imported + Len(batch_ids)
    /\ loop_i' = loop_i + batch_size
    /\ UNCHANGED <<ipc, df, vectorize_column, batch_size, existed, ids,
                   documents, metadatas, count>>
    /\ UNCHANGED <<catalogVars, queryVars, installVars, packVars>>

\* step 7: the loop has ended; collection.count() is returned
ImportFinish ==
    /\ ipc = "loop"
    /\ ~InRange(loop_i, Len(ids), batch_size)
    /\ count' = Len(collection)
    /\ ipc' = "done"
    /\ UNCHANGED <<df, vectorize_column, batch_size, existed, collection, ids,
                   documents, metadatas, loop_i, addCalls, total_imported>>
    /\ UNCHANGED <<catalogVars, queryVars, installVars, packVars>>

ImportNext ==
    \/ \E n \in 0..MaxRows, column \in {None, "Details", MissingColumn},
          size \in -1..MaxBatch, had \in BOOLEAN, old \in 0..MaxOld :
          /\ (~had => old = 0)
          /\ ImportStart(n, column, size, had, old)
    \/ ImportBatch
    \/ ImportFinish

----------------------------------------------------------------------------
(***************************************************************************)
(* Query scripts: agent-skills and claudecode-plugin query_from_seekdb.py  *)
(***************************************************************************)

\* collection.peek(limit=3) of collection_info
PeekLimit == 3
\* the default of --limit (claudecode-plugin script)
DefaultLimit == 10

\* the collections of the database, and the records of each
Collections == {"mobiles"}
\* a collection name that names no collection
MissingCollection == "ghost"
Brands == <<"SAMSUNG", "REDMI", "APPLE">>
\* the metadata of a record are the columns of the imported file other than
\* the vectorized one; every second record comes from a file with an "id" column
Record(k) == [id |-> <<"id", k>>,
              document |-> <<"doc", k>>,
              metadata |-> IF k % 2 = 0
                           THEN [Brand |-> Brands[((k - 1) % 3) + 1],
                                 id |-> <<"sku", k>>]
                           ELSE [Brand |-> Brands[((k - 1) % 3) + 1]],
              distance |-> k]
Stored == [k \in 1..NumRecords |-> Record(k)]

\* the --where filters tried: a Brand the first record has, or one that no
\* record has
Wheres == {None, "SAMSUNG", "NOKIA"}
Matches(k, where) == where = None \/ Stored[k].metadata.Brand = where

\* an output path: <<parent directory, suffix>>; NoPath when --output is not given
NoPath == <<>>
OutputPaths == {<<".", ".csv">>, <<"nested", ".XLSX">>, <<".", ".xls">>,
                <<"nested", ".txt">>}
\* Path.absolute() of an output path
Absolute(path) == <<"/cwd">> \o path
\* str.lower() of a suffix
LowerKeepsCase(suffix) == suffix

Lower(suffix) == IF suffix = ".XLSX" THEN ".xlsx" ELSE suffix

\* Python truthiness of an optional list
Truthy(opt) == ~opt.isNone /\ opt.v # <<>>

\* SelectSeq with an index predicate: the records, in stored order, that match
RECURSIVE MatchingUpTo(_, _)
MatchingUpTo(n, where) ==
    IF n = 0 THEN <<>>
    ELSE IF Matches(n, where) THEN Append(MatchingUpTo(n - 1, where), n)
    ELSE MatchingUpTo(n - 1, where)

\* the rankings the database may answer to a query or hybrid search: up to
\* n_results distinct matching records, in the order the database decides
Rankings(where, n_results) ==
    {r \in UNION {[1..m -> 1..NumRecords] : m \in 0..Min(n_results, NumRecords)} :
        /\ \A i \in DOMAIN r : Matches(r[i], where)
        /\ \A i, j \in DOMAIN r : i # j => r[i] # r[j]}

\* collection.get: a flat result, the matching records in stored order
DbGet(where, limit) ==
    LET all == MatchingUpTo(NumRecords, where)
        ks == SubSeq(all, 1, Min(limit, Len(all)))
    IN [ids |-> Some([i \in DOMAIN ks |-> Stored[ks[i]].id]),
        documents |-> Some([i \in DOMAIN ks |-> Stored[ks[i]].document]),
        metadatas |-> Some([i \in DOMAIN ks |-> Stored[ks[i]].metadata]),
        distances |-> NoneV]

\* collection.query / collection.hybrid_search: a nested result for ranking r
DbNested(r) ==
    [ids |-> Some(<<[i \in DOMAIN r |-> Stored[r[i]].id]>>),
     documents |-> Some(<<[i \in DOMAIN r |-> Stored[r[i]].document]>>),
     metadatas |-> Some(<<[i \in DOMAIN r |-> Stored[r[i]].metadata]>>),
     distances |-> Some(<<[i \in DOMAIN r |-> Stored[r[i]].distance]>>)]

NoResults == [ids |-> NoneV, documents |-> NoneV, metadatas |-> NoneV,
              distances |-> NoneV]

DbCall(op, name, params) ==
    [op |-> op, collection |-> name, exists |-> name \in Collections,
     params |-> params]

\* get_collection without the has_collection test
GetCollectionUnchecked(name) ==
    [raised |-> None, calls |-> <<DbCall("get_collection", name, <<>>)>>]

\* get_collection (the same in both scripts): the calls it makes on the client
\* and the exception it raises, if any
get_collection(name) ==
    IF name \notin Collections
    THEN [raised |-> "ValueError: not found",
          calls |-> <<DbCall("has_collection", name, <<>>),
                      DbCall("list_collections", name, <<>>)>>]
    ELSE [raised |-> None,
          calls |-> <<DbCall("has_collection", name, <<>>),
                      DbCall("get_collection", name, <<>>)>>]

\* In a request a key the script leaves out is written with the value None.
\* the include argument both scripts pass when --include is not given
DefaultInclude == {"documents", "metadatas"}

\* a hybrid_search that filters the full-text part only
AgentHybridRequestKnnUnfiltered(text, n_results, where) ==
    [query |-> [where_document_contains |-> text, where |-> where],
     knn |-> [query_texts |-> text, where |-> None],
     rank |-> [rrf |-> EmptyMap],
     n_results |-> n_results,
     include |-> DefaultInclude]

\* agent-skills hybrid_search: the arguments of collection.hybrid_search
AgentHybridRequest(text, n_results, where) ==
    [query |-> [where_document_contains |-> text, where |-> where],
     knn |-> [query_texts |-> text, where |-> where],
     rank |-> [rrf |-> EmptyMap],
     n_results |-> n_results,
     include |-> DefaultInclude]

\* claudecode-plugin hybrid_search: the arguments of collection.hybrid_search
ClaudeHybridRequest(text, contains, n_results, where) ==
    [query |-> [n_results |-> n_results * 2,
                where_document_contains |-> contains, where |-> where],
     knn |-> [query_texts |-> <<text>>, n_results |-> n_results * 2,
              where |-> where],
     rank |-> [rrf |-> EmptyMap],
     n_results |-> n_results,
     include |-> DefaultInclude]

\* a hybrid_search that cuts the database's answer to its first result
HybridReturnFirst(response) ==
    [response EXCEPT !.ids = Some(<<SubSeq(@.v[1], 1, Min(1, Len(@.v[1])))>>)]

\* both hybrid_search functions return collection.hybrid_search(...) itself
HybridReturn(response) == response

\* agent-skills get_by_filter: the flat get result made "nested"
get_by_filter_result(result) ==
    [ids |-> Some(<<result.ids.v>>),
     documents |-> IF Truthy(result.documents)
                   THEN Some(<<result.documents.v>>) ELSE NoneV,
     metadatas |-> IF Truthy(result.metadatas)
                   THEN Some(<<result.metadatas.v>>) ELSE NoneV,
     distances |-> NoneV]

\* Python truthiness of a document (a string: a sequence of characters) and
\* of a metadata dict
TruthyDocument(d) == d # <<>>
TruthyDict(m) == DOMAIN m # {}

\* the row results_to_dataframe builds for record i: "id" first, then
\* "distance", "document" and the metadata keys, a later key replacing an
\* earlier one of the same name
RowOf(id, distances, docs_, metas_, i) ==
    LET idPart == [c \in {"id"} |-> id]
        distPart == IF distances # <<>> /\ i <= Len(distances)
                    THEN [c \in {"distance"} |-> distances[i]] ELSE EmptyMap
        docPart == IF docs_ # <<>> /\ i <= Len(docs_) /\ TruthyDocument(docs_[i])
                   THEN [c \in {"document"} |-> docs_[i]] ELSE EmptyMap
        metaPart == IF metas_ # <<>> /\ i <= Len(metas_) /\ TruthyDict(metas_[i])
                    THEN metas_[i] ELSE EmptyMap
    IN metaPart @@ docPart @@ distPart @@ idPart

Table(rows) == [raised |-> None, rows |-> rows]
Raises(exception) == [raised |-> exception, rows |-> <<>>]

\* the nested branch of results_to_dataframe (all of it in the agent-skills
\* script, result_type "query" in the claudecode-plugin script)
NestedToDataframe(res) ==
    IF ~Truthy(res.ids) \/ res.ids.v[1] = <<>> THEN Table(<<>>)
    ELSE IF res.distances.isNone
         THEN Raises("TypeError: 'NoneType' object is not subscriptable")
    ELSE IF res.distances.v = <<>>
         THEN Raises("IndexError: list index out of range")
    ELSE LET ids_ == res.ids.v[1]
             distances == res.distances.v[1]
             docs_ == IF Truthy(res.documents) THEN res.documents.v[1] ELSE <<>>
             metas_ == IF Truthy(res.metadatas) THEN res.metadatas.v[1] ELSE <<>>
         IN Table([i \in DOMAIN ids_ |-> RowOf(ids_[i], distances, docs_, metas_, i)])

\* the flat branch of results_to_dataframe (result_type "get")
FlatToDataframe(res) ==
    IF ~Truthy(res.ids) THEN Table(<<>>)
    ELSE LET ids_ == res.ids.v
             docs_ == IF Truthy(res.documents) THEN res.documents.v ELSE <<>>
             metas_ == IF Truthy(res.metadatas) THEN res.metadatas.v ELSE <<>>
         IN Table([i \in DOMAIN ids_ |-> RowOf(ids_[i], <<>>, docs_, metas_, i)])

\* results_to_dataframe of either script
results_to_dataframe(s, res, type) ==
    IF s = "agent" \/ type = "query" THEN NestedToDataframe(res)
    ELSE FlatToDataframe(res)

\* print_results reads the results exactly as results_to_dataframe does and
\* prints one "[Result i]" block per id
print_results(s, res, type) == results_to_dataframe(s, res, type)

\* the command lines tried; the agent-skills parser knows neither --hybrid,
\* --hybrid-query, --contains nor --get-all
Argvs(s) ==
    [collection_name : Collections \cup {MissingCollection},
     query_text : {None, "gaming phone"},
     hybrid : IF s = "claude" THEN BOOLEAN ELSE {FALSE},
     hybrid_query : IF s = "claude" THEN {None, "budget phone"} ELSE {None},
     contains : IF s = "claude" THEN {None, "64 GB"} ELSE {None},
     get_all : IF s = "claude" THEN BOOLEAN ELSE {FALSE},
     info : BOOLEAN,
     where : Wheres,
     n_results : 1..MaxResults,
     output : {NoPath} \cup OutputPaths,
     json : BOOLEAN]

\* no command line yet
NoArgv ==
    [collection_name |-> None, query_text |-> None, hybrid |-> FALSE,
     hybrid_query |-> None, contains |-> None, get_all |-> FALSE,
     info |-> FALSE, where |-> None, n_results |-> 1, output |-> NoPath,
     json |-> FALSE]

\* the options of the mutually exclusive mode_group that a command line gives
ModeGroup(a) ==
    {m \in {"query_text", "get_all", "hybrid", "info"} :
        \/ m = "query_text" /\ a.query_text # None
        \/ m = "get_all" /\ a.get_all
        \/ m = "hybrid" /\ a.hybrid
        \/ m = "info" /\ a.info}

\* parser.parse_args() accepts the command line: argparse rejects two options
\* of the claudecode-plugin script's mode_group given together
Parses(s, a) == s = "agent" \/ Cardinality(ModeGroup(a)) <= 1

QueryInit ==
    /\ qpc = "idle"
    /\ script = "agent"
    /\ argv = NoArgv
    /\ query_text = None
    /\ dbCalls = <<>>
    /\ dbResponse = NoResults
    /\ results = NoResults
    /\ result_type = "query"
    /\ frame = Table(<<>>)
    /\ printed = Table(<<>>)
    /\ fsDirs = {"."}
    /\ outFile = NoneV
    /\ abs_path = NoPath
    /\ exit_status = 0
    /\ raised = None

Exit(status, exception) ==
    /\ qpc' = "exit"
    /\ exit_status' = status
    /\ raised' = exception

\* the script is started: main parses the command line; argparse ends the
\* script with status 2 when it rejects it
Invoke(s, a) ==
    /\ qpc = "idle"
    /\ script' = s
    /\ argv' = a
    /\ query_text' = IF a.query_text # None THEN a.query_text ELSE a.hybrid_query
    /\ IF Parses(s, a)
       THEN /\ qpc' = "parsed"
            /\ UNCHANGED <<exit_status, raised>>
       ELSE Exit(2, "argparse: not allowed with argument")
    /\ UNCHANGED <<dbCalls, dbResponse, results, result_type, frame, printed,
                   fsDirs, outFile, abs_path>>
    /\ UNCHANGED <<catalogVars, importVars, installVars, packVars>>

\* the branch of main's if/elif chain that the arguments select
Mode(s, a) ==
    IF a.info THEN "info"
    ELSE IF s = "claude" /\ a.get_all THEN "get_all"
    ELSE IF s = "claude" /\ a.hybrid THEN "hybrid"
    ELSE IF a.query_text # None THEN (IF s = "agent" THEN "hybrid" ELSE "query")
    ELSE IF s = "agent" /\ a.where # None THEN "scalar"
    ELSE "info"

\* a search function got the collection and the database answered `response`
Fetched(got, op, params, response, returned, type) ==
    /\ dbCalls' = got.calls \o <<DbCall(op, argv.collection_name, params)>>
    /\ dbResponse' = response
    /\ results' = returned
    /\ result_type' = type
    /\ qpc' = "fetched"
    /\ UNCHANGED <<exit_status, raised, printed>>

\* main calls the function of the selected mode: collection_info, get_all,
\* hybrid_search, query_by_text or get_by_filter; each starts with
\* get_collection and makes one call on the collection
Dispatch ==
    /\ qpc = "parsed"
    /\ LET mode == Mode(script, argv)
           got == get_collection(argv.collection_name)
       IN IF mode = "hybrid" /\ script = "claude" /\ query_text = None
          THEN /\ Exit(2, "argparse: --hybrid requires --query-text or --hybrid-query")
               /\ UNCHANGED <<dbCalls, dbResponse, results, result_type, printed>>
          ELSE IF got.raised # None
          THEN /\ Exit(1, got.raised)
               /\ dbCalls' = got.calls
               /\ UNCHANGED <<dbResponse, results, result_type, printed>>
          ELSE IF mode = "info"
          THEN /\ Exit(0, None)
               /\ dbCalls' = got.calls \o
                     <<DbCall("count", argv.collection_name, <<>>)>> \o
                     (IF NumRecords > 0
                      THEN <<DbCall("peek", argv.collection_name, <<>>)>>
                      ELSE <<>>)
               /\ printed' = Table(SubSeq(Stored, 1, Min(PeekLimit, NumRecords)))
               /\ UNCHANGED <<dbResponse, results, result_type>>
          ELSE IF mode = "get_all"
          THEN Fetched(got, "get", [where |-> argv.where, limit |-> DefaultLimit],
                       DbGet(argv.where, DefaultLimit),
                       DbGet(argv.where, DefaultLimit), "get")
          ELSE IF mode = "scalar"
          THEN Fetched(got, "get", [where |-> argv.where],
                       DbGet(argv.where, NumRecords),
                       get_by_filter_result(DbGet(argv.where, NumRecords)),
                       "query")
          ELSE \E r \in Rankings(argv.where, argv.n_results) :
                  IF mode = "hybrid"
                  THEN Fetched(got, "hybrid_search",
                               IF script = "agent"
                               THEN AgentHybridRequest(query_text, argv.n_results,
                                                       argv.where)
                               ELSE ClaudeHybridRequest(query_text, argv.contains,
                                                        argv.n_results, argv.where),
                               DbNested(r), HybridReturn(DbNested(r)), "query")
                  ELSE Fetched(got, "query",
                               [query_texts |-> query_text,
                                n_results |-> argv.n_results,
                                where |-> argv.where,
                                where_document_contains |-> argv.contains,
                                include |-> DefaultInclude],
                               DbNested(r), DbNested(r), "query")
    /\ UNCHANGED <<script, argv, query_text, frame, fsDirs, outFile, abs_path>>
    /\ UNCHANGED <<catalogVars, importVars, installVars, packVars>>

\* export_to_file: the parent directory is created, then the suffix decides
export_to_file(rows, path) ==
    /\ fsDirs' = fsDirs \cup {path[1]}
    /\ IF Lower(path[2]) \in {".csv", ".xlsx", ".xls"}
       THEN /\ outFile' = Some(rows)
            /\ abs_path' = Absolute(path)
            /\ Exit(0, None)
       ELSE /\ UNCHANGED <<outFile, abs_path>>
            /\ Exit(1, "ValueError: Unsupported file format")

\* output_results: export to a file, print as JSON, or pretty print; an
\* exception ends main with status 1
Output ==
    /\ qpc = "fetched"
    /\ IF argv.output # NoPath
       THEN LET df_ == results_to_dataframe(script, results, result_type)
            IN /\ frame' = df_
               /\ UNCHANGED printed
               /\ IF df_.raised # None
                  THEN /\ Exit(1, df_.raised)
                       /\ UNCHANGED <<fsDirs, outFile, abs_path>>
                  ELSE IF df_.rows = <<>>
                  THEN /\ Exit(0, None)
                       /\ UNCHANGED <<fsDirs, outFile, abs_path>>
                  ELSE export_to_file(df_.rows, argv.output)
       ELSE IF argv.json
       THEN /\ printed' = Table(<<results>>)
            /\ Exit(0, None)
            /\ UNCHANGED <<frame, fsDirs, outFile, abs_path>>
       ELSE LET p == print_results(script, results, result_type)
            IN /\ printed' = p
               /\ Exit(IF p.raised # None THEN 1 ELSE 0, p.raised)
               /\ UNCHANGED <<frame, fsDirs, outFile, abs_path>>
    /\ UNCHANGED <<script, argv, query_text, dbCalls, dbResponse, results,
                   result_type>>
    /\ UNCHANGED <<catalogVars, importVars, installVars, packVars>>

QueryNext ==
    \/ \E s \in {"agent", "claude"} : \E a \in Argvs(s) : Invoke(s, a)
    \/ Dispatch
    \/ Output

----------------------------------------------------------------------------
(***************************************************************************)
(* Installer: seekdb_plugin_installer/main.py                              *)
(***************************************************************************)

\* three of the eight tools of TOOL_CONFIGS: two with a project-relative
\* skills directory and the one with a path under the home directory
TOOL_CONFIGS ==
    [t \in {"Claude Code", "OpenClaw", "Cursor"} |->
        IF t = "Claude Code" THEN <<".", ".claude/skills">>
        ELSE IF t = "OpenClaw" THEN <<"~", ".openclaw/workspace/skills">>
        ELSE <<".", ".cursor/skills">>]
Tools == DOMAIN TOOL_CONFIGS
\* the choices of the skills checkbox, in the order they are shown and returned
AVAILABLE_SKILLS == <<"seekdb-docs", "importing-to-seekdb", "querying-from-seekdb">>
SkillChoices == {AVAILABLE_SKILLS[i] : i \in DOMAIN AVAILABLE_SKILLS}
\* the skill directories the package ships (get_package_skills_dir)
PackagedSkills == {"querying-from-seekdb", "seekdb"}
SkillNames == SkillChoices \cup PackagedSkills
\* the files of a packaged skill directory: a later release drops a script
\* and adds another
SkillFiles(release) ==
    IF release = "1.0" THEN {"SKILL.md", "scripts/query.py"}
    ELSE {"SKILL.md", "scripts/search.py"}
\* skills/ of the package: release 1.0 ships the skills of this repository,
\* release 2.0 also the importing-to-seekdb skill the checkbox offers
Package(release) ==
    [k \in SkillNames |->
        IF k \in PackagedSkills \/ (release = "2.0" /\ k = "importing-to-seekdb")
        THEN Dir(SkillFiles(release)) ELSE MissingDir]

is_global_tool_path(tool) == TOOL_CONFIGS[tool][1] = "~"
\* the skills directory of a tool: under the home directory, or under the
\* project root (the current directory)
get_tool_skills_path(tool) ==
    IF is_global_tool_path(tool)
    THEN <<"home", TOOL_CONFIGS[tool][2]>>
    ELSE <<"cwd", TOOL_CONFIGS[tool][2]>>
InstallPaths == {get_tool_skills_path(t) : t \in Tools}

\* how a prompt can be answered: with a value, with None (questionary's ask()
\* returns None when the user presses Ctrl+C), or by a KeyboardInterrupt
AnswerKinds == {"value", "none", "interrupt"}
\* what copy_skill can meet: success, an exception of rmtree (the old copy
\* stays), an exception of mkdir (the old copy is removed, nothing is copied)
\* or an exception of copytree (the old copy is removed, the new one partial)
CopyOutcomes == {"ok", "rmtree_failed", "mkdir_failed", "copytree_failed"}

\* `if not selected_tool` / `if not selected_skills`
NoSelection(kind, value) == kind # "value" \/ value = {}
\* `if not confirm`, with the decline test left out
DeclinedNever(kind, yes) == FALSE

\* `if not confirm` / `if not confirm_root`
Declined(kind, yes) == kind # "value" \/ ~yes

\* what copytree has copied when it fails: the first file only
PartialCopy(source) == Dir(source.entries \cap {"SKILL.md"})

\* copy_skill that copies into the directory of the installed version
CopySkillOver(source, dir, skill, outcome) ==
    IF outcome = "ok"
    THEN [dir |-> [dir EXCEPT ![skill] = Dir(@.entries \cup source.entries)],
          returned |-> TRUE]
    ELSE IF outcome = "rmtree_failed" /\ dir[skill].exists
    THEN [dir |-> dir, returned |-> FALSE]
    ELSE IF outcome = "copytree_failed"
    THEN [dir |-> [dir EXCEPT ![skill] = PartialCopy(source)], returned |-> FALSE]
    ELSE [dir |-> [dir EXCEPT ![skill] = MissingDir], returned |-> FALSE]

\* copy_skill: rmtree of the existing target, mkdir of the skills directory,
\* copytree; any Exception is caught and makes it return False. The result is
\* the target skills directory after it, and what it returned
copy_skill(source, dir, skill, outcome) ==
    IF outcome = "ok"
    THEN [dir |-> [dir EXCEPT ![skill] = source], returned |-> TRUE]
    ELSE IF outcome = "rmtree_failed" /\ dir[skill].exists
    THEN [dir |-> dir, returned |-> FALSE]
    ELSE IF outcome = "copytree_failed"
    THEN [dir |-> [dir EXCEPT ![skill] = PartialCopy(source)], returned |-> FALSE]
    ELSE [dir |-> [dir EXCEPT ![skill] = MissingDir], returned |-> FALSE]

\* the loop of install_skills over the selected skills from the i-th choice
\* on: a skill the package does not ship is skipped with a warning, the
\* others are copied one after the other
RECURSIVE InstallFrom(_, _, _, _, _)
InstallFrom(i, pkg, dir, skills, outcome) ==
    IF i > Len(AVAILABLE_SKILLS) THEN [dir |-> dir, log |-> <<>>]
    ELSE LET skill == AVAILABLE_SKILLS[i]
         IN IF skill \notin skills
            THEN InstallFrom(i + 1, pkg, dir, skills, outcome)
            ELSE IF ~pkg[skill].exists
            THEN LET rest == InstallFrom(i + 1, pkg, dir, skills, outcome)
                 IN [rest EXCEPT !.log =
                        <<[skill |-> skill, result |-> "skipped",
                           source |-> pkg[skill]]>> \o @]
            ELSE LET c == copy_skill(pkg[skill], dir, skill, outcome[skill])
                     rest == InstallFrom(i + 1, pkg, c.dir, skills, outcome)
                 IN [rest EXCEPT !.log =
                        <<[skill |-> skill,
                           result |-> IF c.returned THEN "installed" ELSE "failed",
                           source |-> pkg[skill]]>> \o @]

\* install_skills for the one selected tool
install_skills(pkg, dir, skills, outcome) == InstallFrom(1, pkg, dir, skills, outcome)

\* the skills for which copy_skill returned True
InstalledBy(log) == {log[i].skill : i \in {j \in DOMAIN log : log[j].result = "installed"}}

InstallInit ==
    /\ inst_pc = "idle"
    /\ selected_tool = None
    /\ selected_skills = {}
    /\ asked = <<>>
    /\ package = Package("1.0")
    /\ targetTree = [p \in InstallPaths |-> [k \in SkillNames |-> MissingDir]]
    /\ treeBefore = targetTree
    /\ copied = {}
    /\ copy_log = <<>>
    /\ inst_exit = 0
    /\ installs = 0

InstallExit(status) ==
    /\ inst_pc' = "exit"
    /\ inst_exit' = status

\* the installer is started and shows the tool prompt
InstallStart ==
    /\ inst_pc \in {"idle", "exit"}
    /\ installs < MaxInstalls
    /\ installs' = installs + 1
    /\ inst_pc' = "tool"
    /\ selected_tool' = None
    /\ selected_skills' = {}
    /\ asked' = <<>>
    /\ treeBefore' = targetTree
    /\ copied' = {}
    /\ copy_log' = <<>>
    /\ UNCHANGED <<package, targetTree, inst_exit>>
    /\ UNCHANGED <<catalogVars, importVars, queryVars, packVars>>

\* the tool prompt is answered
SelectTool(kind, tool) ==
    /\ inst_pc = "tool"
    /\ asked' = Append(asked, [prompt |-> "tool", kind |-> kind])
    /\ IF kind = "interrupt" \/ NoSelection(kind, {tool})
       THEN /\ InstallExit(0)
            /\ UNCHANGED selected_tool
       ELSE /\ selected_tool' = tool
            /\ inst_pc' = "confirm"
            /\ UNCHANGED inst_exit
    /\ UNCHANGED <<selected_skills, package, targetTree, treeBefore, copied,
                   copy_log, installs>>
    /\ UNCHANGED <<catalogVars, importVars, queryVars, packVars>>

\* the "Continue?" / "Install skills to this directory?" prompt is answered
ConfirmPath(kind, yes) ==
    /\ inst_pc = "confirm"
    /\ asked' = Append(asked, [prompt |-> "confirm",
                               kind |-> IF kind = "value" /\ ~yes THEN "no" ELSE kind])
    /\ IF kind = "interrupt" \/ Declined(kind, yes)
       THEN InstallExit(0)
       ELSE /\ inst_pc' = "skills"
            /\ UNCHANGED inst_exit
    /\ UNCHANGED <<selected_tool, selected_skills, package, targetTree,
                   treeBefore, copied, copy_log, installs>>
    /\ UNCHANGED <<catalogVars, importVars, queryVars, packVars>>

\* the skills checkbox is answered; with a selection main prints the summary,
\* runs install_skills and ends
SelectSkills(kind, skills, outcome) ==
    /\ inst_pc = "skills"
    /\ asked' = Append(asked, [prompt |-> "skills",
                               kind |-> IF kind = "value" /\ skills = {}
                                        THEN "empty" ELSE kind])
    /\ InstallExit(0)
    /\ IF kind = "interrupt" \/ NoSelection(kind, skills)
       THEN UNCHANGED <<selected_skills, targetTree, copied, copy_log>>
       ELSE LET path == get_tool_skills_path(selected_tool)
                done == install_skills(package, targetTree[path], skills, outcome)
            IN /\ selected_skills' = skills
               /\ targetTree' = [targetTree EXCEPT ![path] = done.dir]
               /\ copy_log' = done.log
               /\ copied' = InstalledBy(done.log)
    /\ UNCHANGED <<selected_tool, package, treeBefore, installs>>
    /\ UNCHANGED <<catalogVars, importVars, queryVars, packVars>>

\* between two runs a later release of the package is installed
UpgradePackage ==
    /\ inst_pc \in {"idle", "exit"}
    /\ package = Package("1.0")
    /\ package' = Package("2.0")
    /\ UNCHANGED <<inst_pc, selected_tool, selected_skills, asked, targetTree,
                   treeBefore, copied, copy_log, inst_exit, installs>>
    /\ UNCHANGED <<catalogVars, importVars, queryVars, packVars>>

InstallNext ==
    \/ InstallStart
    \/ \E kind \in AnswerKinds, tool \in Tools : SelectTool(kind, tool)
    \/ \E kind \in AnswerKinds, yes \in BOOLEAN : ConfirmPath(kind, yes)
    \/ \E kind \in AnswerKinds, skills \in SUBSET SkillChoices,
          outcome \in [SkillChoices -> CopyOutcomes] :
          SelectSkills(kind, skills, outcome)
    \/ UpgradePackage

----------------------------------------------------------------------------
(***************************************************************************)
(* Packaging script: upload_to_pypi.py                                     *)
(***************************************************************************)

\* the entries skills/ can have
SkillEntries == {"seekdb", "querying-from-seekdb", "__pycache__"}

\* shutil.copytree(src, dst, ignore=ignore_patterns("__pycache__"))
SyncSkills(src) == Dir(src.entries \ {"__pycache__"})

\* the skills are removed from the package only after a successful build
RemoveOnSuccess(dst, ok) == IF ok THEN MissingDir ELSE dst

\* the finally clause: dst is removed if it exists, whatever the build did
RemoveFromPackage(dst, ok) == MissingDir

PackInit ==
    /\ pack_pc = "idle"
    /\ rootSkills = Dir({"seekdb", "querying-from-seekdb"})
    /\ packageSkills = MissingDir
    /\ dist = MissingDir
    /\ steps = <<>>
    /\ pack_exit = 0
    /\ packs = 0
    /\ skillEdits = 0

\* the script is started: without skills/ it ends with SystemExit; otherwise
\* it replaces the package's skills by a copy of skills/ and starts the build
PackStart ==
    /\ pack_pc \in {"idle", "exit"}
    /\ packs < MaxPacks
    /\ packs' = packs + 1
    /\ IF ~rootSkills.exists
       THEN /\ pack_pc' = "exit"
            /\ pack_exit' = 1
            /\ steps' = <<>>
            /\ UNCHANGED packageSkills
       ELSE /\ packageSkills' = SyncSkills(rootSkills)
            /\ steps' = <<"sync", "build">>
            /\ pack_pc' = "build"
            /\ UNCHANGED pack_exit
    /\ UNCHANGED <<rootSkills, dist, skillEdits>>
    /\ UNCHANGED <<catalogVars, importVars, queryVars, installVars>>

\* `python -m build` returns: the wheel holds the package as it is now; a
\* non-zero status raises CalledProcessError; the finally clause runs
BuildEnds(ok) ==
    /\ pack_pc = "build"
    /\ dist' = IF ok THEN packageSkills ELSE dist
    /\ packageSkills' = RemoveFromPackage(packageSkills, ok)
    /\ steps' = steps \o <<IF ok THEN "built" ELSE "build failed", "remove">>
    /\ pack_pc' = "exit"
    /\ pack_exit' = IF ok THEN 0 ELSE 1
    /\ UNCHANGED <<rootSkills, packs, skillEdits>>
    /\ UNCHANGED <<catalogVars, importVars, queryVars, installVars>>

\* the script is killed (SIGKILL) during the build: no finally clause runs
PackKilled ==
    /\ pack_pc = "build"
    /\ steps' = Append(steps, "killed")
    /\ pack_pc' = "exit"
    /\ pack_exit' = 137
    /\ UNCHANGED <<rootSkills, packageSkills, dist, packs, skillEdits>>
    /\ UNCHANGED <<catalogVars, importVars, queryVars, installVars>>

\* between two runs the project's skills/ directory is changed or removed
EditSkills(d) ==
    /\ pack_pc \in {"idle", "exit"}
    /\ skillEdits < MaxSkillEdits
    /\ d # rootSkills
    /\ rootSkills' = d
    /\ skillEdits' = skillEdits + 1
    /\ UNCHANGED <<pack_pc, packageSkills, dist, steps, pack_exit, packs>>
    /\ UNCHANGED <<catalogVars, importVars, queryVars, installVars>>

PackNext ==
    \/ PackStart
    \/ \E ok \in BOOLEAN : BuildEnds(ok)
    \/ PackKilled
    \/ \E d \in {Dir(es) : es \in SUBSET SkillEntries} \cup {MissingDir} :
          EditSkills(d)

----------------------------------------------------------------------------
Init == CatalogInit /\ ImportInit /\ QueryInit /\ InstallInit /\ PackInit

SpecCatalog == Init /\ [][CatalogNext]_vars

SpecCatalogPaths == Init /\ [][CatalogPathsNext]_vars

SpecImport == Init /\ [][ImportNext]_vars

SpecQuery == Init /\ [][QueryNext]_vars

SpecInstall == Init /\ [][InstallNext]_vars

SpecPack == Init /\ [][PackNext]_vars

Next == CatalogNext \/ CatalogPathsNext \/ ImportNext \/ QueryNext \/ InstallNext \/ PackNext

Spec == Init /\ [][Next]_vars

----------------------------------------------------------------------------
(***************************************************************************)
(* Claims about the catalog generator (checked under SpecCatalog).         *)
(***************************************************************************)

\* the file's cached hash equals the hash this run computed, and the catalog
\* loaded by this run has an entry for it
HashUnchanged(f) ==
    /\ f \in DOMAIN loaded_cache
    /\ loaded_cache[f] = current_hash[f]
    /\ f \in DOMAIN existing_catalog

InFlight == {i \in DOMAIN taskpc : taskpc[i] = "inflight"}
\* the catalog file at the --output of the current run
Written == catalogFile[gargs.output]

\* C1: in an incremental run a file whose current hash equals its cached hash
\* and that has an entry in the existing catalog is never sent to the LLM, and
\* the entry written for it carries the existing entry's description.
C1_UnchangedFileReused ==
    (runs > 0 /\ gargs.incremental) =>
        \A f \in Files : HashUnchanged(f) =>
            /\ sent[f] = 0
            /\ \A i \in DOMAIN tasks : tasks[i].rel_path # f
            /\ (gpc = "done" /\ ~gargs.dry_run) =>
                  /\ Cardinality({i \in DOMAIN Written :
                                      Written[i].path = f}) = 1
                  /\ \A i \in DOMAIN Written : Written[i].path = f =>
                        Written[i].description =
                            existing_catalog[f].description

\* an incremental run has ended that reused the description an earlier run
\* generated for one file and regenerated another, changed, file
C1_Witness ==
    /\ gpc = "done" /\ gargs.incremental /\ ~gargs.dry_run /\ runs = 2
    /\ \E f \in Files :
          /\ HashUnchanged(f)
          /\ existing_catalog[f].description = LLMAnswer(docs[f], 1)
    /\ \E g \in Files : sent[g] = 1

\* C2: in a run without --dry-run every file that is new, changed or processed
\* without --incremental is sent to the LLM exactly once (no file is ever sent
\* twice), and when the run has ended the hash cache file maps its path to
\* the hash computed in this run.
C2_ChangedFileSentOnce ==
    /\ \A f \in Files : sent[f] <= 1
    /\ (gpc = "done" /\ runs > 0 /\ ~gargs.dry_run) =>
          \A f \in Files :
              (\/ ~gargs.incremental
               \/ f \notin DOMAIN loaded_cache
               \/ loaded_cache[f] # current_hash[f]) =>
                  /\ sent[f] = 1
                  /\ f \in DOMAIN hashCacheFile
                  /\ hashCacheFile[f] = current_hash[f]

\* an incremental run has ended in which a file with a stale cached hash was
\* sent again, and its API call failed
C2_Witness ==
    /\ gpc = "done" /\ gargs.incremental /\ ~gargs.dry_run
    /\ \E f \in Files :
          /\ f \in DOMAIN loaded_cache
          /\ loaded_cache[f] # current_hash[f]
          /\ sent[f] = 1
          /\ hashCacheFile[f] = current_hash[f]
          /\ \E i \in DOMAIN tasks :
                tasks[i].rel_path = f /\ taskres[i] = EmptyDescription

\* C3: at no moment are more than --concurrency LLM API requests in flight.
C3_BoundedInFlight ==
    Cardinality(InFlight) <= gargs.concurrency

\* the semaphore is exhausted: as many requests in flight as --concurrency
\* allows, and another scheduled file waiting
C3_Witness ==
    /\ gpc = "gather"
    /\ gargs.concurrency >= 1
    /\ Cardinality(InFlight) = gargs.concurrency
    /\ \E i \in DOMAIN taskpc : taskpc[i] = "waiting"

\* C4: a --dry-run invocation issues no LLM API request and leaves the
\* catalog file and the hash cache file as they were before the run.
C4_DryRunChangesNothing ==
    (runs > 0 /\ gargs.dry_run) =>
        /\ \A f \in Files : sent[f] = 0
        /\ tasks = <<>>
        /\ gpc = "done"
        /\ catalogFile = catalogBefore
        /\ hashCacheFile = loaded_cache

\* a dry run has ended over an existing catalog, with a file that it would
\* have processed
C4_Witness ==
    /\ gpc = "done" /\ gargs.dry_run
    /\ catalogBefore[gargs.output] # <<>>
    /\ \E i \in DOMAIN entries : entries[i].description = DryRunDescription
----------------------------------------------------------------------------
(***************************************************************************)
(* Claims about the importer (checked under SpecImport).                   *)
(***************************************************************************)

RECURSIVE Concat(_)
Concat(ss) == IF ss = <<>> THEN <<>> ELSE ss[1] \o Concat(Tail(ss))

\* the ids of the records the import added, in insertion order
AddedIds ==
    LET old == Len(collection) - total_imported
    IN [k \in 1..total_imported |-> collection[old + k].id]

\* C5: for every batch size of at least 1 the import adds every row of the
\* file to the collection exactly once, in consecutive batches of at most
\* batch_size records whose sizes sum to the number of rows (the batches
\* batch_generator yields), and for a collection that did not exist before
\* the returned count equals the number of rows.
C5_EveryRowOnceInBatches ==
    (ipc = "done" /\ batch_size >= 1) =>
        /\ AddedIds = [i \in 1..Len(df) |-> Uuid(i)]
        /\ Concat([k \in DOMAIN addCalls |-> addCalls[k].ids]) = ids
        /\ \A k \in DOMAIN addCalls :
              Len(addCalls[k].ids) \in 1..batch_size
        /\ total_imported = Len(df)
        /\ [k \in DOMAIN addCalls |-> addCalls[k].ids] =
              batch_generator(ids, batch_size)
        /\ (~existed => count = Len(df))

\* an import into a new collection has ended whose last batch was shorter
\* than the batch size
C5_Witness ==
    /\ ipc = "done" /\ ~existed
    /\ batch_size = 2 /\ Len(df) = 3
    /\ Len(addCalls) = 2
    /\ Len(addCalls[2].ids) = 1
    /\ count = 3
----------------------------------------------------------------------------
(***************************************************************************)
(* Claims about the query scripts (checked under SpecQuery).               *)
(***************************************************************************)

SearchOps == {"get", "query", "hybrid_search"}
LastCall == dbCalls[Len(dbCalls)]
\* main got results from a search function and handed them to output_results
Searched == dbCalls # <<>> /\ LastCall.op \in SearchOps
\* the ids of the result, in result order: ids for a flat get result, ids[0]
\* for a nested one
ResultIds ==
    IF script = "claude" /\ result_type = "get" THEN results.ids.v
    ELSE results.ids.v[1]
\* the documents, metadatas and distances of the result, in result order
FlatResult == script = "claude" /\ result_type = "get"
ResultDocuments == IF FlatResult THEN results.documents.v ELSE results.documents.v[1]
ResultMetadatas == IF FlatResult THEN results.metadatas.v ELSE results.metadatas.v[1]
ResultDistances == results.distances.v[1]
\* output_results converted a non-empty result to a table
Converted ==
    /\ qpc = "exit" /\ Searched /\ argv.output # NoPath
    /\ frame.raised = None /\ frame.rows # <<>>
SupportedOutput(path) == Lower(path[2]) \in {".csv", ".xlsx", ".xls"}

\* C6: in the agent-skills script a scalar search (--where without
\* --query-text) that matches at least one record is converted to the nested
\* structure of query results, so that printing it or exporting it with
\* --output succeeds and yields exactly one result per matching record.
C6_ScalarSearchPrintsAndExports ==
    (/\ qpc = "exit" /\ script = "agent"
     /\ Mode(script, argv) = "scalar"
     /\ argv.collection_name \in Collections
     /\ MatchingUpTo(NumRecords, argv.where) # <<>>
     /\ ~(argv.output = NoPath /\ argv.json)
     /\ (argv.output # NoPath => SupportedOutput(argv.output))) =>
        /\ exit_status = 0
        /\ raised = None
        /\ IF argv.output = NoPath
           THEN Len(printed.rows) = Len(MatchingUpTo(NumRecords, argv.where))
           ELSE /\ ~outFile.isNone
                /\ Len(outFile.v) = Len(MatchingUpTo(NumRecords, argv.where))

\* C7: every hybrid search of either script passes rank = {rrf: {}} to the
\* database's hybrid_search, and what the script's hybrid_search returns is
\* the database's result as received.
C7_HybridSearchDelegated ==
    \A i \in DOMAIN dbCalls : dbCalls[i].op = "hybrid_search" =>
        /\ "rank" \in DOMAIN dbCalls[i].params
        /\ dbCalls[i].params.rank = [rrf |-> EmptyMap]
        /\ results = dbResponse

\* each script has made a hybrid search that the database answered with two
\* results
C7_Witness ==
    /\ Searched /\ LastCall.op = "hybrid_search"
    /\ script = "claude"
    /\ LastCall.params.n_results = 2
    /\ Len(dbResponse.ids.v[1]) = 2
    /\ qpc = "exit" /\ exit_status = 0

\* C8: in the claudecode-plugin script --hybrid together with --query-text
\* (optionally with --contains) performs a hybrid search with that query text.
C8_HybridWithQueryText ==
    (/\ qpc = "exit" /\ script = "claude"
     /\ argv.hybrid /\ argv.query_text # None
     /\ ~argv.get_all /\ ~argv.info
     /\ argv.collection_name \in Collections) =>
        \E i \in DOMAIN dbCalls :
            /\ dbCalls[i].op = "hybrid_search"
            /\ dbCalls[i].params.knn.query_texts = <<argv.query_text>>

\* C9: get_collection raises ValueError "not found" whenever the collection
\* does not exist, without attempting to fetch it, and returns the collection
\* whenever it exists; no get, query, hybrid_search, count or peek is ever
\* issued against a missing collection.
C9_MissingCollectionRejected ==
    /\ \A i \in DOMAIN dbCalls :
          dbCalls[i].op \in SearchOps \cup {"get_collection", "count", "peek"}
              => dbCalls[i].exists
    /\ dbCalls # <<>> =>
          IF argv.collection_name \in Collections
          THEN /\ raised # "ValueError: not found"
               /\ \E i \in DOMAIN dbCalls : dbCalls[i].op = "get_collection"
               /\ LastCall.op \in SearchOps \cup {"count", "peek"}
          ELSE /\ qpc = "exit" /\ exit_status = 1
               /\ raised = "ValueError: not found"
               /\ \A i \in DOMAIN dbCalls :
                     dbCalls[i].op \in {"has_collection", "list_collections"}

\* a search of a missing collection has ended with the ValueError
C9_Witness ==
    /\ qpc = "exit"
    /\ argv.collection_name = MissingCollection
    /\ Mode(script, argv) \in {"hybrid", "query", "get_all", "scalar"}
    /\ raised = "ValueError: not found"
    /\ dbCalls # <<>>

\* C10: results_to_dataframe returns exactly one row per returned record id,
\* in result order, and an empty table when the result holds no ids.
C10_OneRowPerId ==
    (qpc = "exit" /\ Searched /\ argv.output # NoPath) =>
        /\ frame.raised = None
        /\ IF Truthy(results.ids) THEN Len(frame.rows) = Len(ResultIds)
           ELSE frame.rows = <<>>

\* C11: results_to_dataframe flattens every record without loss: row i holds
\* the id of record i under "id", its document under "document", its distance
\* (nested results) under "distance" and the value of each of its metadata
\* keys under that key.
C11_FlattenedWithoutLoss ==
    Converted =>
        \A i \in DOMAIN frame.rows :
            /\ frame.rows[i]["id"] = ResultIds[i]
            /\ frame.rows[i]["document"] = ResultDocuments[i]
            /\ ~FlatResult => frame.rows[i]["distance"] = ResultDistances[i]
            /\ \A key \in DOMAIN ResultMetadatas[i] :
                  frame.rows[i][key] = ResultMetadatas[i][key]

----------------------------------------------------------------------------
(***************************************************************************)
(* Claims about the installer (checked under SpecInstall).                 *)
(***************************************************************************)

\* the prompts answered so far, and the kinds of the answers
PromptsAsked == [i \in DOMAIN asked |-> asked[i].prompt]
AnswersGiven == [i \in DOMAIN asked |-> asked[i].kind]
\* the last prompt was cancelled, declined or answered with an empty selection
Refused == asked # <<>> /\ asked[Len(asked)].kind # "value"

\* C13: the installer changes the file system only after the tool prompt, the
\* confirmation prompt and the skills prompt were answered, in that order,
\* with a tool, a yes and a non-empty selection; a run in which a prompt was
\* cancelled with Ctrl+C, declined or answered with nothing ends at that
\* prompt with exit status 0 and the file system as it was.
C13_NothingCopiedBeforeConsent ==
    /\ (targetTree # treeBefore \/ copied # {}) =>
          /\ PromptsAsked = <<"tool", "confirm", "skills">>
          /\ AnswersGiven = <<"value", "value", "value">>
          /\ selected_tool \in Tools
          /\ selected_skills # {}
    /\ Refused =>
          /\ inst_pc = "exit"
          /\ inst_exit = 0
          /\ targetTree = treeBefore
          /\ copied = {}

\* a second run over an installed skill has ended at a declined confirmation
C13_Witness ==
    /\ installs = 2 /\ inst_pc = "exit"
    /\ PromptsAsked = <<"tool", "confirm">>
    /\ AnswersGiven = <<"value", "no">>
    /\ \E p \in InstallPaths : targetTree[p]["querying-from-seekdb"].exists
----------------------------------------------------------------------------
(***************************************************************************)
(* Claims about the packaging script (checked under SpecPack).             *)
(***************************************************************************)

\* C18: the build runs only after skills/ was copied into the package (while
\* it runs the package holds that copy), and once a run whose build
\* succeeded or failed has ended the steps were sync, build, remove in that
\* order and src/seekdb_plugin_installer/skills does not exist.
C18_SyncBuildRemove ==
    /\ pack_pc = "build" =>
          /\ steps = <<"sync", "build">>
          /\ packageSkills = SyncSkills(rootSkills)
    /\ (pack_pc = "exit" /\ Len(steps) = 4) =>
          /\ steps[1] = "sync" /\ steps[2] = "build"
          /\ steps[3] \in {"built", "build failed"}
          /\ steps[4] = "remove"
          /\ ~packageSkills.exists
    /\ (pack_pc = "exit" /\ packs > 0) =>
          (Len(steps) = 4 \/ steps = <<>> \/ steps = <<"sync", "build", "killed">>)

\* a run whose build failed has ended
C18_Witness ==
    /\ pack_pc = "exit"
    /\ steps = <<"sync", "build", "build failed", "remove">>
    /\ pack_exit = 1
    /\ rootSkills.exists
    /\ ~packageSkills.exists
----------------------------------------------------------------------------
(***************************************************************************)
(* More claims about the importer (checked under SpecImport).              *)
(***************************************************************************)

\* the rows sent before the k-th collection.add
RowsBefore(k) == (k - 1) * batch_size

\* C14: with a vectorize column the import sends, for every row, the string
\* value of that column as its document and exactly the other columns as its
\* metadata; without one it sends no documents and every column as metadata.
\* ids, documents and metadatas have one element per row, and in every batch
\* element j of each describes the same row.
C14_DocumentsAndMetadataAligned ==
    (ipc \in {"loop", "done"} /\ batch_size >= 1) =>
        /\ Len(ids) = Len(df) /\ Len(metadatas) = Len(df)
        /\ IF vectorize_column # None
           THEN ~documents.isNone /\ Len(documents.v) = Len(df)
           ELSE documents.isNone
        /\ \A k \in DOMAIN addCalls :
              LET call == addCalls[k]
              IN /\ Len(call.metadatas) = Len(call.ids)
                 /\ IF vectorize_column # None
                    THEN ~call.documents.isNone
                         /\ Len(call.documents.v) = Len(call.ids)
                    ELSE call.documents.isNone
                 /\ \A j \in DOMAIN call.ids :
                       LET row == df[RowsBefore(k) + j]
                       IN /\ call.ids[j] = Uuid(RowsBefore(k) + j)
                          /\ IF vectorize_column # None
                             THEN /\ call.documents.v[j] = Str(row[vectorize_column])
                                  /\ DOMAIN call.metadatas[j] =
                                         Columns \ {vectorize_column}
                                  /\ \A c \in DOMAIN call.metadatas[j] :
                                         call.metadatas[j][c] = row[c]
                             ELSE call.metadatas[j] = row

\* an import of three rows with a vectorize column has ended after two batches
C14_Witness ==
    /\ ipc = "done"
    /\ vectorize_column = "Details"
    /\ Len(df) = 3 /\ batch_size = 2
    /\ Len(addCalls) = 2
    /\ addCalls[2].documents.v = <<Str(Row(3)["Details"])>>
----------------------------------------------------------------------------
(***************************************************************************)
(* More claims about the catalog generator (C16 and C20 under SpecCatalog, *)
(* C15 and C19 under SpecCatalogPaths).                                    *)
(***************************************************************************)

\* a run that writes its catalog has ended
RunWritten == gpc = "done" /\ runs > 0 /\ ~gargs.dry_run
\* the entries of the catalog written by the current run for a file
EntriesOf(f) == {i \in DOMAIN Written : Written[i].path = f}
\* the file is reused by the current, incremental, run: no task regenerates it
Reused(f) ==
    /\ runs > 0 /\ gargs.incremental /\ gpc \in {"gather", "done"}
    /\ f \in DOMAIN existing_catalog
    /\ \A i \in DOMAIN tasks : tasks[i].rel_path # f
    /\ HashUnchanged(f)

\* C15: every entry of the catalog a run has written carries the branch that
\* the branch map loaded by that run assigns to its path, and carries no
\* branch when the map assigns none, whether the entry was generated or reused.
C15_EntriesCarryCurrentBranch ==
    RunWritten =>
        \A i \in DOMAIN Written :
            Written[i].branch =
                IF Written[i].path \in DOMAIN branch_map
                THEN branch_map[Written[i].path] ELSE NoBranch

\* C16: an incremental run does not skip a file whose entry in the existing
\* catalog has an empty description: it schedules the file for the LLM again.
C16_EmptyDescriptionRegenerated ==
    (runs > 0 /\ gargs.incremental /\ ~gargs.dry_run) =>
        \A f \in DOMAIN existing_catalog :
            existing_catalog[f].description = EmptyDescription =>
                \E i \in DOMAIN tasks : tasks[i].rel_path = f

\* C19: whenever an incremental run reuses the existing entry of a file and
\* its description is not empty, that description was generated from the
\* content the file has in this run.
C19_ReusedDescriptionIsCurrent ==
    \A f \in Files :
        (Reused(f) /\ existing_catalog[f].description # EmptyDescription) =>
            /\ existing_catalog[f].description[1] = "llm"
            /\ file_md5(existing_catalog[f].description[2]) = current_hash[f]

\* C20: a failed LLM call releases its concurrency slot and does not end the
\* run: when the run has ended the catalog file holds the run's entries, one
\* per file, the failed file's with an empty description and every other
\* scheduled file's with the description its call returned, and the hash
\* cache file holds the hash of every scheduled file.
C20_FailedCallDoesNotAbort ==
    /\ (gpc = "gather") =>
          semaphore + Cardinality(InFlight) = gargs.concurrency
    /\ RunWritten =>
          /\ Written = entries
          /\ hashCacheFile = hash_cache
          /\ \A f \in Files : Cardinality(EntriesOf(f)) = 1
          /\ \A i \in DOMAIN tasks :
                /\ \A k \in EntriesOf(tasks[i].rel_path) :
                      Written[k].description = taskres[i]
                /\ tasks[i].rel_path \in DOMAIN hashCacheFile
                /\ hashCacheFile[tasks[i].rel_path] = tasks[i].current_hash

\* a run has ended in which the call of one file failed and that of another
\* returned a description
C20_Witness ==
    /\ RunWritten
    /\ \E i, j \in DOMAIN tasks :
          /\ taskres[i] = EmptyDescription
          /\ taskres[j] = LLMAnswer(tasks[j].content, runs)
          /\ EntriesOf(tasks[i].rel_path) # {}
----------------------------------------------------------------------------
(***************************************************************************)
(* More claims about the query scripts (checked under SpecQuery).          *)
(***************************************************************************)

\* C17: every hybrid search of the agent-skills script passes the query text
\* of the command line both as where_document.$contains of the full-text part
\* and as query_texts of the knn part, and passes the --where filter in both
\* parts; without --where neither part has a where condition.
C17_AgentHybridUsesTextAndFilterTwice ==
    script = "agent" =>
        \A i \in DOMAIN dbCalls : dbCalls[i].op = "hybrid_search" =>
            LET request == dbCalls[i].params
            IN /\ request.query.where_document_contains = argv.query_text
               /\ request.knn.query_texts = argv.query_text
               /\ request.query.where = argv.where
               /\ request.knn.where = argv.where

\* the agent-skills script has made a hybrid search with a --where filter
C17_Witness ==
    /\ script = "agent" /\ qpc = "exit" /\ exit_status = 0
    /\ Searched /\ LastCall.op = "hybrid_search"
    /\ argv.query_text = "gaming phone"
    /\ argv.where = "SAMSUNG"
    /\ LastCall.params.knn.where = "SAMSUNG"
----------------------------------------------------------------------------
(***************************************************************************)
(* More claims about the installer (checked under SpecInstall).            *)
(***************************************************************************)

\* the skills directory the current run installs to
InstallTarget == targetTree[get_tool_skills_path(selected_tool)]
\* a run that reached install_skills has ended
Installed == inst_pc = "exit" /\ selected_skills # {}

\* C21: after install_skills the directory of every skill for which
\* copy_skill returned True equals the packaged skill directory, with no file
\* of an earlier installed version; a failure makes copy_skill return False,
\* and every selected skill has been handled, in order, whatever happened to
\* the skills before it, the installer ending with status 0.
C21_CopyReplacesAndFailureContinues ==
    Installed =>
        /\ inst_exit = 0
        /\ Len(copy_log) = Cardinality(selected_skills)
        /\ {copy_log[i].skill : i \in DOMAIN copy_log} = selected_skills
        /\ \A i \in DOMAIN copy_log :
              /\ copy_log[i].result \in {"installed", "failed", "skipped"}
              /\ copy_log[i].result = "skipped" <=> ~copy_log[i].source.exists
              /\ copy_log[i].result = "installed" =>
                    /\ InstallTarget[copy_log[i].skill] = copy_log[i].source
                    /\ copy_log[i].skill \in copied

\* a run has ended in which the copy of one skill failed and the next skill
\* was copied over an installed older version of it
C21_Witness ==
    /\ Installed
    /\ \E i, j \in DOMAIN copy_log :
          /\ i < j
          /\ copy_log[i].result = "failed"
          /\ copy_log[j].result = "installed"
          /\ treeBefore[get_tool_skills_path(selected_tool)][copy_log[j].skill]
                 = Dir(SkillFiles("1.0"))
          /\ InstallTarget[copy_log[j].skill] = Dir(SkillFiles("2.0"))
----------------------------------------------------------------------------
(***************************************************************************)
(* More claims about the query scripts (checked under SpecQuery).          *)
(***************************************************************************)

\* C22: an export_to_file call that ends with the ValueError for an
\* unsupported format leaves the file system as it was: no output file is
\* written and no directory is created.
C22_FailedExportLeavesNoTrace ==
    (Converted /\ raised = "ValueError: Unsupported file format") =>
        /\ outFile.isNone
        /\ fsDirs = {"."}
====
